---- MODULE Spec2Model ----
(***************************************************************************)
(* plasma-utils: the Plasma Merkle sum tree (leaf parsing, inclusion       *)
(* proofs, inclusion / non-inclusion verification), the address schema     *)
(* type and the base model.                                                *)
(*                                                                         *)
(* Byte strings are sequences of integers.  Array indices are 0-based in   *)
(* the JavaScript source and 1-based here; every operator that takes or    *)
(* returns an index of the program uses the program's 0-based value.       *)
(***************************************************************************)
EXTENDS Integers, Sequences, FiniteSets, TLC

VARIABLES
  txs,        \* the transactions handed to parseLeaves / the constructor
  pc,         \* which operation ran last
  leaves,     \* result of the last parseLeaves call
  levels,     \* this.levels of the constructed tree
  index,      \* argument of the last getInclusionProof call
  branch,     \* result of the last getInclusionProof call
  call,       \* arguments of the last static verifier call
  ret,        \* what that call returned (or that it threw)
  value,      \* SchemaAddress: the address handed to the schema type
  accepted,   \* SchemaAddress: what the `required` validator said of it
  wire,       \* SchemaAddress: encode(value)
  unwired,    \* SchemaAddress: decode(wire)
  args,       \* BaseModel: the `args` handed to the constructor
  self,       \* BaseModel: the own properties of the constructed model
  got         \* BaseModel: what the last getter read returned

treeVars == <<txs, leaves, levels, index, branch, call, ret>>
addressVars == <<value, accepted, wire, unwired>>
modelVars == <<args, self, got>>
vars == <<pc, treeVars, addressVars, modelVars>>

----------------------------------------------------------------------------
(* Bounds of the model.                                                    *)

\* constants.MAX_COIN_ID, scaled down from its 128-bit value.
MAX_COIN_ID == 6
\* Significand width of a JavaScript Number (53), scaled with MAX_COIN_ID so
\* that, as in the program, the coin space reaches beyond the integers a
\* Number holds exactly.
MantissaBits == 2

MIN_COIN_ID == 0

\* Most transfers in a block whose transfers, their order and their grouping
\* into transactions are all arbitrary.
MaxLeaves == (MAX_COIN_ID - MIN_COIN_ID) \div 2

----------------------------------------------------------------------------
(* Arithmetic helpers.                                                     *)

RECURSIVE Pow2(_)
Pow2(n) == IF n <= 0 THEN 1 ELSE 2 * Pow2(n - 1)

RECURSIVE BitLength(_)
BitLength(x) == IF x <= 0 THEN 0 ELSE 1 + BitLength(x \div 2)

RECURSIVE Reverse(_)
Reverse(s) == IF s = <<>> THEN <<>> ELSE Append(Reverse(Tail(s)), Head(s))

RECURSIVE SeqSum(_)
SeqSum(s) == IF s = <<>> THEN 0 ELSE Head(s) + SeqSum(Tail(s))

\* What `a - b` makes of a BigNum operand: the BigNum has no valueOf, so it is
\* converted through toString() to a Number, the nearest value with a
\* MantissaBits-bit significand (ties to even).
ToNumber(x) ==
  LET ulp == IF BitLength(x) > MantissaBits
             THEN Pow2(BitLength(x) - MantissaBits) ELSE 1
      q == x \div ulp
      r == x % ulp
  IN  IF 2 * r < ulp THEN q * ulp
      ELSE IF 2 * r > ulp THEN (q + 1) * ulp
      ELSE IF q % 2 = 0 THEN q * ulp ELSE (q + 1) * ulp

----------------------------------------------------------------------------
(* Transactions, hashing and tree nodes.                                   *)

\* Transaction.encoded: the block number, then the transfers in order.
RECURSIVE EncodeTransfers(_)
EncodeTransfers(ts) ==
  IF ts = <<>> THEN <<>>
  ELSE <<Head(ts).start, Head(ts).end>> \o EncodeTransfers(Tail(ts))

encoded(tx) == <<tx.block, Len(tx.transfers)>> \o EncodeTransfers(tx.transfers)

\* keccak-256, collision-free: the digest determines the hashed bytes (and
\* its own length, so that digest || sum splits in one way only).
hash(bytes) == <<Len(bytes)>> \o bytes

\* 0x00...00
NullHash == <<0>>

\* new MerkleTreeNode(hash, sum); data is digest || sum.
MerkleTreeNode(h, s) == [hash |-> h, sum |-> s, data |-> Append(h, s)]

emptyLeaf == MerkleTreeNode(NullHash, 0)

parent(l, r) == MerkleTreeNode(hash(l.data \o r.data), l.sum + r.sum)

----------------------------------------------------------------------------
(* parseLeaves.                                                            *)

ParsedTransfers(curr) ==
  [k \in 1..Len(curr.transfers) |->
     [start |-> curr.transfers[k].start,
      end |-> curr.transfers[k].end,
      encoded |-> encoded(curr)]]

RECURSIVE Flatten(_)
Flatten(ls) ==
  IF ls = <<>> THEN <<>>
  ELSE Flatten(SubSeq(ls, 1, Len(ls) - 1)) \o ParsedTransfers(ls[Len(ls)])

\* The comparator handed to Array.prototype.sort.
SortCompare(a, b) == ToNumber(a.start) - ToNumber(b.start)

\* Array.prototype.sort with that comparator (stable).
RECURSIVE Insert(_, _)
Insert(s, x) ==
  IF s = <<>> THEN <<x>>
  ELSE IF SortCompare(s[Len(s)], x) <= 0 THEN Append(s, x)
  ELSE Append(Insert(SubSeq(s, 1, Len(s) - 1), x), s[Len(s)])

RECURSIVE Sort(_)
Sort(s) ==
  IF s = <<>> THEN <<>>
  ELSE Insert(Sort(SubSeq(s, 1, Len(s) - 1)), s[Len(s)])

\* `leaves` after the reduce and the sort.
SortedLeaves(ls) == Sort(Flatten(ls))

SingleLeafSum == MAX_COIN_ID

FirstLeafSum(ls) == ls[2].start - MIN_COIN_ID

\* i is the loop variable of the source, 1 <= i < leaves.length - 1.
InteriorLeafSum(ls, i) == ls[i + 2].start - ls[i + 1].start

LastLeafSumFromEnd(ls) == MAX_COIN_ID - ls[Len(ls)].end

LastLeafSum(ls) == MAX_COIN_ID - ls[Len(ls)].start

\* The result of parseLeaves: the parsed nodes, or that the call threw (with no
\* transfer at all, leaves[0] is undefined where the first leaf is built).
parseLeaves(input) ==
  LET ls == SortedLeaves(input)
      n == Len(ls)
  IN  IF n = 1
      THEN [threw |-> FALSE, error |-> "",
            parsed |-> <<MerkleTreeNode(hash(ls[1].encoded), SingleLeafSum)>>]
      ELSE IF n = 0
      THEN [threw |-> TRUE, error |-> "TypeError", parsed |-> <<>>]
      ELSE [threw |-> FALSE, error |-> "",
            parsed |->
              <<MerkleTreeNode(hash(ls[1].encoded), FirstLeafSum(ls))>>
              \o [i \in 1..(n - 2) |->
                    MerkleTreeNode(hash(ls[i + 1].encoded), InteriorLeafSum(ls, i))]
              \o <<MerkleTreeNode(hash(ls[n].encoded), LastLeafSum(ls))>>]

----------------------------------------------------------------------------
(* The generic sum tree: the constructor, the levels and the root.         *)

\* The levels above `children`: an odd level pairs its last node with the
\* empty leaf.
RECURSIVE generate(_)
generate(children) ==
  IF Len(children) <= 1 THEN <<>>
  ELSE LET padded == IF Len(children) % 2 = 1
                     THEN Append(children, emptyLeaf) ELSE children
           parents == [i \in 1..(Len(padded) \div 2) |->
                         parent(padded[2 * i - 1], padded[2 * i])]
       IN  <<parents>> \o generate(parents)

\* this.levels after new PlasmaMerkleSumTree(input), parseLeaves having returned.
constructor(parsed) == <<parsed>> \o generate(parsed)

root(lv) == lv[Len(lv)][1]

----------------------------------------------------------------------------
(* getInclusionProof.                                                      *)

SiblingAlwaysRight(i) == i + 1

SiblingOf(i) == i + (IF i % 2 = 0 THEN 1 ELSE -1)

\* The loop of getInclusionProof from iteration i on.
RECURSIVE Siblings(_, _, _)
Siblings(lv, i, siblingIndex) ==
  IF i >= Len(lv) - 1 THEN <<>>
  ELSE LET node == IF siblingIndex + 1 \in DOMAIN lv[i + 1]
                   THEN lv[i + 1][siblingIndex + 1] ELSE emptyLeaf
           parentIndex == IF siblingIndex = 0 THEN 0 ELSE siblingIndex \div 2
       IN  <<node.data>> \o Siblings(lv, i + 1, SiblingOf(parentIndex))

getInclusionProof(lv, i) ==
  IF i >= Len(lv[1]) \/ i < 0
  THEN [threw |-> TRUE, branch |-> <<>>]
  ELSE [threw |-> FALSE,
        branch |-> <<MerkleTreeNode(NullHash, lv[1][i + 1].sum).data>>
                   \o Siblings(lv, 0, SiblingOf(i))]

----------------------------------------------------------------------------
(* The static verifiers.                                                   *)

\* element.slice(0, 64) and element.slice(-32): the digest and the sum.
ProofElement(element) ==
  [hash |-> SubSeq(element, 1, Len(element) - 1), sum |-> element[Len(element)]]

\* BigNum.toString(2, padding): the binary digits, zero-padded on the left to
\* a multiple of `padding` digits (a padding of 0 counts as 1).
RECURSIVE Bits(_)
Bits(n) == IF n < 2 THEN <<n>> ELSE Append(Bits(n \div 2), n % 2)

RECURSIVE PadLeft(_, _)
PadLeft(s, padding) ==
  IF Len(s) % padding = 0 THEN s ELSE PadLeft(<<0>> \o s, padding)

toString2(n, padding) == PadLeft(Bits(n), IF padding = 0 THEN 1 ELSE padding)

Path(leafIndex, proof) == Reverse(toString2(leafIndex, Len(proof)))

\* The statement `sum.add(x)`: BigNum.add returns the total and leaves `sum`
\* as it was, and the statement drops what it returns.
AddStatement(sum, x) == sum

\* The loop of checkInclusionAndGetBounds from iteration i on; pathIndex is
\* i - 1 throughout.
RECURSIVE Walk(_, _, _, _)
Walk(proof, path, i, acc) ==
  IF i >= Len(proof) THEN acc
  ELSE LET proofElement == MerkleTreeNode(proof[i + 1].hash, proof[i + 1].sum)
       IN  IF path[i] = 0
           THEN Walk(proof, path, i + 1,
                     [computedNode |-> parent(acc.computedNode, proofElement),
                      leftSum |-> acc.leftSum,
                      rightSum |-> AddStatement(acc.rightSum, proof[i + 1].sum)])
           ELSE Walk(proof, path, i + 1,
                     [computedNode |-> parent(proofElement, acc.computedNode),
                      leftSum |-> AddStatement(acc.leftSum, proof[i + 1].sum),
                      rightSum |-> acc.rightSum])

Threw == [threw |-> TRUE, value |-> FALSE]

\* The root compared is the root node's data (digest || sum).
checkInclusionAndGetBounds(leafIndex, transaction, transferIndex, inclusionProof, rootData) ==
  LET proof == [k \in 1..Len(inclusionProof) |-> ProofElement(inclusionProof[k])]
  IN  IF Len(proof) = 0
      THEN Threw    \* proof[0] is undefined
      ELSE IF transferIndex + 1 \notin DOMAIN transaction.transfers
      THEN Threw    \* transaction.transfers[transferIndex] is undefined
      ELSE
        LET path == Path(leafIndex, proof)
            done == Walk(proof, path, 1,
                         [computedNode |->
                            MerkleTreeNode(hash(encoded(transaction)), proof[1].sum),
                          leftSum |-> 0,
                          rightSum |-> 0])
            computedNode == done.computedNode
            transfer == transaction.transfers[transferIndex + 1]
            validSum == /\ transfer.start >= done.leftSum
                        /\ transfer.end <= computedNode.sum - done.rightSum
            validRoot == computedNode.data = rootData
        IN  [threw |-> FALSE,
             value |-> [valid |-> validRoot /\ validSum,
                        implicitStart |-> done.leftSum,
                        implicitEnd |-> computedNode.sum - done.rightSum]]

checkInclusion(leafIndex, transaction, transferIndex, inclusionProof, rootData) ==
  LET r == checkInclusionAndGetBounds(leafIndex, transaction, transferIndex,
                                      inclusionProof, rootData)
  IN  IF r.threw THEN Threw ELSE [threw |-> FALSE, value |-> r.value.valid]

checkNonInclusion(range, leafIndex, transaction, transferIndex, inclusionProof, rootData) ==
  LET r == checkInclusionAndGetBounds(leafIndex, transaction, transferIndex,
                                      inclusionProof, rootData)
  IN  IF r.threw THEN Threw
      ELSE [threw |-> FALSE,
            value |-> /\ r.value.valid
                      /\ range.start >= r.value.implicitStart
                      /\ range.end <= r.value.implicitEnd]

----------------------------------------------------------------------------
(* The inputs.                                                             *)

Transfers ==
  {[start |-> s, end |-> e] :
     s \in MIN_COIN_ID..(MAX_COIN_ID - 1), e \in (MIN_COIN_ID + 1)..MAX_COIN_ID}

Ranges == {t \in Transfers : t.start < t.end}

\* The transfers `flat`, cut into transactions after every position k with
\* cuts[k].
RECURSIVE Group(_, _)
Group(flat, cuts) ==
  IF Len(flat) = 0 THEN <<>>
  ELSE IF Len(flat) = 1 THEN <<[block |-> 1, transfers |-> flat]>>
  ELSE LET rest == Group(SubSeq(flat, 1, Len(flat) - 1),
                         SubSeq(cuts, 1, Len(cuts) - 1))
           x == flat[Len(flat)]
       IN  IF cuts[Len(cuts)]
           THEN Append(rest, [block |-> 1, transfers |-> <<x>>])
           ELSE [rest EXCEPT ![Len(rest)].transfers = Append(@, x)]

Overlap(a, b) == a.start < b.end /\ b.start < a.end

PairwiseDisjoint(flat) ==
  \A i, j \in 1..Len(flat) : i < j => ~Overlap(flat[i], flat[j])

Blocks(n) ==
  {Group(flat, cuts) :
     flat \in [1..n -> Ranges], cuts \in [1..(n - 1) -> BOOLEAN]}

DisjointBlocks(n) ==
  {Group(flat, cuts) :
     flat \in {f \in [1..n -> Ranges] : PairwiseDisjoint(f)},
     cuts \in [1..(n - 1) -> BOOLEAN]}

\* One transaction per coin of `coins`, in ascending order, each moving that
\* one coin.
UnitBlocks ==
  {[k \in 1..Cardinality(coins) |->
      LET c == CHOOSE x \in coins : Cardinality({y \in coins : y < x}) = k - 1
      IN  [block |-> 1, transfers |-> <<[start |-> c, end |-> c + 1]>>]] :
     coins \in SUBSET (MIN_COIN_ID..(MAX_COIN_ID - 1))}

NoAddress == value = <<>> /\ accepted = FALSE /\ wire = <<>> /\ unwired = <<>>
NoModel == args = <<>> /\ self = <<>> /\ got = <<>>

NoLeaves == [threw |-> FALSE, error |-> "", parsed |-> <<>>]
NoCall == [op |-> "none"]
NoRet == [threw |-> FALSE, value |-> FALSE]

----------------------------------------------------------------------------
(* Leaf parsing on its own: any transfers, overlapping ones included.      *)

InitParse ==
  /\ \E n \in 0..MaxLeaves : txs \in Blocks(n)
  /\ pc = "input"
  /\ leaves = NoLeaves
  /\ levels = <<>>
  /\ index = 0
  /\ branch = <<>>
  /\ call = NoCall
  /\ ret = NoRet
  /\ NoAddress
  /\ NoModel

ParseLeaves ==
  /\ pc = "input"
  /\ leaves' = parseLeaves(txs)
  /\ pc' = IF leaves'.threw THEN "threw" ELSE "parsed"
  /\ UNCHANGED <<txs, levels, index, branch, call, ret, addressVars, modelVars>>

NextParse == ParseLeaves

SpecParse == InitParse /\ [][NextParse]_vars

\* leaves.parsed[i].sum, for all i.
LeafSums == [i \in 1..Len(leaves.parsed) |-> leaves.parsed[i].sum]

\* C7: the sums of the leaves parseLeaves returns add up to
\* MAX_COIN_ID - MIN_COIN_ID with two leaves or more and to MAX_COIN_ID with
\* one, wherever the transfers start.
C7_LeafSumsCoverCoinSpace ==
  pc = "parsed" =>
    SeqSum(LeafSums) = IF Len(leaves.parsed) = 1
                       THEN MAX_COIN_ID
                       ELSE MAX_COIN_ID - MIN_COIN_ID

\* Three leaves from transfers handed over in descending order of start, two
\* of them overlapping.
C7_Witness ==
  /\ pc = "parsed"
  /\ Len(leaves.parsed) = 3
  /\ LET flat == Flatten(txs)
     IN  /\ flat[1].start > flat[2].start
         /\ flat[2].start > flat[3].start
         /\ ~PairwiseDisjoint(flat)

\* C4: transfers of which two overlap are rejected with OverlappingRanges, and
\* no leaf list is produced.
C4_OverlappingRangesRejected ==
  (pc \in {"parsed", "threw"} /\ ~PairwiseDisjoint(Flatten(txs))) =>
    /\ leaves.threw
    /\ leaves.error = "OverlappingRanges"
    /\ leaves.parsed = <<>>

Ascending(ls) == \A i \in 1..(Len(ls) - 1) : ls[i].start <= ls[i + 1].start

\* The orders of the entries of `flat`.
Orders(flat) ==
  {[i \in 1..Len(flat) |-> flat[p[i]]] :
     p \in {q \in [1..Len(flat) -> 1..Len(flat)] :
              \A i, j \in 1..Len(flat) : q[i] = q[j] => i = j}}

\* The leaf documented for position i (1-based) of the ordered entries `ls`.
DescribedLeaf(ls, i) ==
  MerkleTreeNode(hash(ls[i].encoded),
                 IF Len(ls) = 1 THEN leaves.parsed[1].sum
                 ELSE IF i = 1 THEN ls[2].start - MIN_COIN_ID
                 ELSE IF i < Len(ls) THEN ls[i + 1].start - ls[i].start
                 ELSE MAX_COIN_ID - ls[Len(ls)].start)

\* C8: parseLeaves returns one leaf per transfer, in ascending order of start,
\* with the sums first: leaves[1].start - MIN_COIN_ID, interior:
\* leaves[i+1].start - leaves[i].start, last: MAX_COIN_ID - leaves[n-1].start,
\* each leaf's digest the hash of the encoded transaction of its transfer.
C8_LeavesSortedWithSums ==
  pc = "parsed" =>
    \E ls \in Orders(Flatten(txs)) :
      /\ Ascending(ls)
      /\ leaves.parsed = [i \in 1..Len(ls) |-> DescribedLeaf(ls, i)]

----------------------------------------------------------------------------
(* A tree built from a block of pairwise disjoint transfers, proofs taken  *)
(* from it and the verifiers called on them.                               *)

InitTree ==
  /\ \/ \E n \in 0..MaxLeaves : txs \in DisjointBlocks(n)
     \/ txs \in UnitBlocks
  /\ pc = "input"
  /\ leaves = NoLeaves
  /\ levels = <<>>
  /\ index = 0
  /\ branch = <<>>
  /\ call = NoCall
  /\ ret = NoRet
  /\ NoAddress
  /\ NoModel

\* new PlasmaMerkleSumTree(txs)
Construct ==
  /\ pc = "input"
  /\ leaves' = parseLeaves(txs)
  /\ IF leaves'.threw
     THEN pc' = "threw" /\ levels' = <<>>
     ELSE pc' = "built" /\ levels' = constructor(leaves'.parsed)
  /\ UNCHANGED <<txs, index, branch, call, ret, addressVars, modelVars>>

Built == pc \in {"built", "proved", "noproof"}

\* tree.getInclusionProof(i)
GetInclusionProof ==
  /\ Built
  /\ \E i \in 0..Len(levels[1]) :
       LET r == getInclusionProof(levels, i)
       IN  /\ index' = i
           /\ branch' = r.branch
           /\ pc' = IF r.threw THEN "noproof" ELSE "proved"
  /\ call' = NoCall
  /\ ret' = NoRet
  /\ UNCHANGED <<txs, leaves, levels, addressVars, modelVars>>

\* The transfers of leaf `index`: (transaction, transferIndex) pairs of txs that
\* parseLeaves made leaf `index` from.
LeafSources ==
  {st \in (1..Len(txs)) \X (0..(MaxLeaves - 1)) :
     /\ st[2] + 1 \in DOMAIN txs[st[1]].transfers
     /\ ParsedTransfers(txs[st[1]])[st[2] + 1] = SortedLeaves(txs)[index + 1]}

\* The arguments a holder of the last proof verifies it with.
HonestArgs ==
  {[leafIndex |-> index,
    transaction |-> txs[st[1]],
    transferIndex |-> st[2],
    inclusionProof |-> branch,
    root |-> root(levels).data] : st \in LeafSources}

ReplaceDigest(element, d) == Append(d, element[Len(element)])
ReplaceSum(element, s) == Append(SubSeq(element, 1, Len(element) - 1), s)

OtherDigests(h) == {NullHash, hash(encoded(h.transaction)), hash(<<0>>)}
OtherSums(element) == {0, element[Len(element)] + 1, MAX_COIN_ID}

\* h with the leaf index or the transfer index replaced, or with no proof.
Malformed(h) ==
  {[h EXCEPT !.leafIndex = j] : j \in 0..(2 * Len(levels[1]) + 1)}
  \cup {[h EXCEPT !.transferIndex = k] : k \in 0..MaxLeaves}
  \cup {[h EXCEPT !.inclusionProof = <<>>]}

\* h with one argument replaced: those of Malformed, the transaction, one
\* proof element (its digest or its sum) or the root.
Variants(h) ==
  Malformed(h)
  \cup {[h EXCEPT !.transaction = txs[t]] : t \in 1..Len(txs)}
  \cup {[h EXCEPT !.transaction.block = 2]}
  \cup {[h EXCEPT !.inclusionProof[k] = ReplaceDigest(@, d)] :
          k \in 1..Len(h.inclusionProof), d \in OtherDigests(h)}
  \cup UNION {{[h EXCEPT !.inclusionProof[k] = ReplaceSum(@, x)] :
                  x \in OtherSums(h.inclusionProof[k])} :
               k \in 1..Len(h.inclusionProof)}
  \cup {[h EXCEPT !.root = d] :
          d \in {emptyLeaf.data, levels[1][1].data,
                 ReplaceSum(h.root, h.root[Len(h.root)] + 1)}}

CheckInclusion ==
  /\ pc = "proved"
  /\ \E h \in HonestArgs : \E a \in {h} \cup Variants(h) :
       /\ call' = [op |-> "checkInclusion", args |-> a]
       /\ ret' = checkInclusion(a.leafIndex, a.transaction, a.transferIndex,
                                a.inclusionProof, a.root)
  /\ pc' = "checked"
  /\ UNCHANGED <<txs, leaves, levels, index, branch, addressVars, modelVars>>

CheckInclusionAndGetBounds ==
  /\ pc = "proved"
  /\ \E h \in HonestArgs : \E a \in {h} \cup Malformed(h) :
       /\ call' = [op |-> "checkInclusionAndGetBounds", args |-> a]
       /\ ret' = checkInclusionAndGetBounds(a.leafIndex, a.transaction,
                                            a.transferIndex, a.inclusionProof, a.root)
  /\ pc' = "checked"
  /\ UNCHANGED <<txs, leaves, levels, index, branch, addressVars, modelVars>>

CheckNonInclusion ==
  /\ pc = "proved"
  /\ \E h \in HonestArgs : \E range \in Ranges :
     \E a \in IF range.start = MIN_COIN_ID /\ range.end = MAX_COIN_ID
              THEN {h} \cup Malformed(h) ELSE {h} :
       /\ call' = [op |-> "checkNonInclusion", args |-> a, range |-> range]
       /\ ret' = checkNonInclusion(range, a.leafIndex, a.transaction,
                                   a.transferIndex, a.inclusionProof, a.root)
  /\ pc' = "checked"
  /\ UNCHANGED <<txs, leaves, levels, index, branch, addressVars, modelVars>>

NextTree ==
  \/ Construct
  \/ GetInclusionProof
  \/ CheckInclusion
  \/ CheckInclusionAndGetBounds
  \/ CheckNonInclusion

SpecTree == InitTree /\ [][NextTree]_vars

C2_OverlappingRangeNotExcluded ==
  ( /\ call.op = "checkNonInclusion"
    /\ call.args \in HonestArgs
    /\ Overlap(call.range,
               call.args.transaction.transfers[call.args.transferIndex + 1]) ) =>
    ret = [threw |-> FALSE, value |-> FALSE]

\* The sums of the proof elements 1..|proof|-1 of `a` whose path bit is `bit`.
SiblingSums(a, bit) ==
  LET proof == [k \in 1..Len(a.inclusionProof) |-> ProofElement(a.inclusionProof[k])]
      path == Path(a.leafIndex, proof)
  IN  SeqSum([i \in 1..(Len(proof) - 1) |->
                IF path[i] = bit THEN proof[i + 1].sum ELSE 0])

\* The sum of the node computed from the proof `a`: that of all its elements.
ComputedSum(a) ==
  SeqSum([k \in 1..Len(a.inclusionProof) |-> ProofElement(a.inclusionProof[k]).sum])

\* C3: checkInclusionAndGetBounds returns implicitStart = the sums of the left
\* siblings (path bit 1) and implicitEnd = the computed sum less the sums of
\* the right siblings (path bit 0), and holds the transfer within them.
C3_BoundsAreSiblingSums ==
  (call.op = "checkInclusionAndGetBounds" /\ ~ret.threw) =>
    LET left == SiblingSums(call.args, 1)
        end == ComputedSum(call.args) - SiblingSums(call.args, 0)
        transfer == call.args.transaction.transfers[call.args.transferIndex + 1]
    IN  /\ ret.value.implicitStart = left
        /\ ret.value.implicitEnd = end
        /\ ret.value.valid => (transfer.start >= left /\ transfer.end <= end)

\* a is h with exactly one proof element, or the root, or the transaction, or
\* the leaf index replaced by another value.
OneReplaced(a, h) ==
  /\ a.transferIndex = h.transferIndex
  /\ Len(a.inclusionProof) = Len(h.inclusionProof)
  /\ Cardinality({k \in 1..Len(h.inclusionProof) :
                    a.inclusionProof[k] # h.inclusionProof[k]})
     + (IF a.root # h.root THEN 1 ELSE 0)
     + (IF a.transaction # h.transaction THEN 1 ELSE 0)
     + (IF a.leafIndex # h.leafIndex THEN 1 ELSE 0) = 1

\* C5: with one proof element, the root, the transaction or the leaf index of
\* arguments that verify replaced by another value, checkInclusion is false.
C5_ReplacementRejected ==
  call.op = "checkInclusion" =>
    \A h \in HonestArgs :
      ( /\ checkInclusion(h.leafIndex, h.transaction, h.transferIndex,
                          h.inclusionProof, h.root).value
        /\ OneReplaced(call.args, h) ) =>
        ret = [threw |-> FALSE, value |-> FALSE]

\* C6: the verifiers never throw.
C6_VerifiersNeverThrow == call.op # "none" => ~ret.threw


----------------------------------------------------------------------------
(* SchemaAddress.  A string is the sequence of its characters.             *)

\* SchemaAddress.length: the hex characters of an encoded address.
SchemaAddressLength == 40

\* Lengths tried on either side of an address's.
LengthSlack == 1

HexDigits == {"0", "1", "2", "3", "4", "5", "6", "7", "8", "9",
              "a", "b", "c", "d", "e", "f"}

HexPrefix == <<"0", "x">>

HasHexPrefix(v) == Len(v) >= 2 /\ SubSeq(v, 1, 2) = HexPrefix

\* v.substring(k)
Substring(v, k) == SubSeq(v, k + 1, Len(v))

\* web3.utils.isAddress on a string without upper-case letters: an optional
\* 0x and then exactly 40 hex digits.
isAddress(v) ==
  LET digits == IF HasHexPrefix(v) THEN Substring(v, 2) ELSE v
  IN  Len(digits) = 40 /\ \A i \in 1..Len(digits) : digits[i] \in HexDigits

\* validators.required().validate
validate(v) == isAddress(v)

encode(v) == Substring(v, 2)

decode(v) == HexPrefix \o v

\* The strings tried: with or without 0x, then `k` times one character and
\* another one up to the length.
AddressChars == {"0", "a", "f", "g", "x"}

AddressInputs ==
  {prefix \o [i \in 1..n |-> IF i <= k THEN c1 ELSE c2] :
     prefix \in {<<>>, HexPrefix},
     n \in (SchemaAddressLength - LengthSlack)..(SchemaAddressLength + LengthSlack),
     k \in {0, 1, 2, SchemaAddressLength - 1},
     c1 \in AddressChars, c2 \in AddressChars}

InitAddress ==
  /\ value \in AddressInputs
  /\ accepted = FALSE
  /\ wire = <<>>
  /\ unwired = <<>>
  /\ pc = "input"
  /\ txs = <<>>
  /\ leaves = NoLeaves
  /\ levels = <<>>
  /\ index = 0
  /\ branch = <<>>
  /\ call = NoCall
  /\ ret = NoRet
  /\ NoModel

Validate ==
  /\ pc = "input"
  /\ accepted' = validate(value)
  /\ pc' = "validated"
  /\ UNCHANGED <<value, wire, unwired, treeVars, modelVars>>

Encode ==
  /\ pc = "validated"
  /\ wire' = encode(value)
  /\ pc' = "encoded"
  /\ UNCHANGED <<value, accepted, unwired, treeVars, modelVars>>

Decode ==
  /\ pc = "encoded"
  /\ unwired' = decode(wire)
  /\ pc' = "decoded"
  /\ UNCHANGED <<value, accepted, wire, treeVars, modelVars>>

NextAddress == Validate \/ Encode \/ Decode

SpecAddress == InitAddress /\ [][NextAddress]_vars

\* The 0x-prefixed form of v.
Prefixed(v) == IF HasHexPrefix(v) THEN v ELSE HexPrefix \o v

\* C9: an address the validator accepts, with or without 0x, encodes to
\* exactly SchemaAddressLength characters and decodes back to its 0x-prefixed
\* form.
C9_AddressRoundTrip ==
  accepted =>
    /\ pc \in {"encoded", "decoded"} => Len(wire) = SchemaAddressLength
    /\ pc = "decoded" => unwired = Prefixed(value)

----------------------------------------------------------------------------
(* BaseModel.  An object is the function from its own property names to    *)
(* their values; a property value is <<"raw", v>> as handed in or          *)
(* <<"cast", v>> once the schema has cast it.                              *)

\* Object.getOwnPropertyNames(BaseModel.prototype)
PrototypeNames == {"constructor", "encoded", "decoded", "hash"}

illegal == {"schema"}

\* The accessors of BaseModel.prototype: getters with no setter.
Accessors == {"encoded", "decoded", "hash"}

\* The fields of the schema, in order.
SchemaFields == <<"start", "end">>

FieldNames == {SchemaFields[i] : i \in 1..Len(SchemaFields)}

Restrict(o, names) == [k \in names |-> o[k]]

\* schema.decode(hex): one value per field, in order.
schemaDecode(bytes) ==
  [k \in FieldNames |->
     <<"cast", bytes[CHOOSE i \in 1..Len(SchemaFields) : SchemaFields[i] = k]>>]

\* schema.cast(args) casts the fields of args where they are and returns args.
schemaCast(o) ==
  [k \in DOMAIN o |-> IF k \in FieldNames THEN <<"cast", o[k][2]>> ELSE o[k]]

\* schema.validate(args): every field is there.
schemaValidate(o) == FieldNames \subseteq DOMAIN o

\* schema.encode(record)
schemaEncode(o) == [i \in 1..Len(SchemaFields) |-> o[SchemaFields[i]][2]]

\* What a property of the model holds: the schema, an object or a value.
SchemaSlot == [kind |-> "schema", obj |-> <<>>, v |-> <<"schema", 0>>]
ObjectSlot(o) == [kind |-> "object", obj |-> o, v |-> <<"object", 0>>]
ValueSlot(v) == [kind |-> "value", obj |-> <<>>, v |-> v]

\* The properties the loop over the reserved names deletes from args.
Deleted(o) == DOMAIN o \cap (PrototypeNames \cup illegal)

\* Object.assign(target, source): it throws where a property of source is an
\* accessor without a setter on target's prototype.
ObjectAssign(target, source) ==
  IF DOMAIN source \cap Accessors # {}
  THEN [threw |-> TRUE, self |-> <<>>]
  ELSE [threw |-> FALSE,
        self |-> [k \in DOMAIN target \cup DOMAIN source |->
                    IF k \in DOMAIN source THEN ValueSlot(source[k]) ELSE target[k]]]

\* new BaseModel(a, schema): the own properties of the model, or that the
\* constructor threw.  this.args is the object args, so what is deleted from
\* args is gone from this.args.
BaseModel(a) ==
  LET given == IF a.kind \in {"string", "buffer"} THEN schemaDecode(a.bytes)
               ELSE a.props
      casted == schemaCast(given)
      cleaned == Restrict(casted, DOMAIN casted \ Deleted(casted))
      this == [k \in {"schema", "args"} |->
                 IF k = "schema" THEN SchemaSlot ELSE ObjectSlot(cleaned)]
  IN  IF ~schemaValidate(casted)
      THEN [threw |-> TRUE, self |-> <<>>]
      ELSE ObjectAssign(this, cleaned)

NoRead == [name |-> "", threw |-> FALSE, bytes |-> <<>>, slot |-> ValueSlot(<<"raw", 0>>)]

\* get encoded ()
encodedOf(this) ==
  IF this["schema"].kind # "schema" \/ this["args"].kind # "object"
  THEN [NoRead EXCEPT !.name = "encoded", !.threw = TRUE]
  ELSE [NoRead EXCEPT !.name = "encoded", !.bytes = schemaEncode(this["args"].obj)]

\* get decoded ()
decodedOf(this) == [NoRead EXCEPT !.name = "decoded", !.slot = this["args"]]

\* get hash ()
hashOf(this) ==
  LET e == encodedOf(this)
  IN  IF e.threw THEN [e EXCEPT !.name = "hash"]
      ELSE [NoRead EXCEPT !.name = "hash", !.bytes = hash(e.bytes)]

RawValues == {<<"raw", 1>>, <<"raw", 2>>}

OtherNames == PrototypeNames \cup illegal \cup {"args", "memo"}

\* The args tried: records with both fields or without `end`, with any other
\* properties; and encoded records, as a string or as a buffer.
ModelInputs ==
  {[kind |-> "object", bytes |-> <<>>, props |-> o] :
     o \in UNION {[names -> RawValues] :
                    names \in {FieldNames \cup extra : extra \in SUBSET OtherNames}
                              \cup {{"start"}}}}
  \cup {[kind |-> k, bytes |-> b, props |-> <<>>] :
          k \in {"string", "buffer"}, b \in [1..Len(SchemaFields) -> 1..2]}

InitModel ==
  /\ args \in ModelInputs
  /\ self = <<>>
  /\ got = NoRead
  /\ pc = "input"
  /\ txs = <<>>
  /\ leaves = NoLeaves
  /\ levels = <<>>
  /\ index = 0
  /\ branch = <<>>
  /\ call = NoCall
  /\ ret = NoRet
  /\ NoAddress

New ==
  /\ pc = "input"
  /\ LET r == BaseModel(args)
     IN  /\ self' = r.self
         /\ pc' = IF r.threw THEN "threw" ELSE "constructed"
  /\ UNCHANGED <<args, got, treeVars, addressVars>>

GetEncoded ==
  /\ pc = "constructed"
  /\ got' = encodedOf(self)
  /\ pc' = "read"
  /\ UNCHANGED <<args, self, treeVars, addressVars>>

GetDecoded ==
  /\ pc = "constructed"
  /\ got' = decodedOf(self)
  /\ pc' = "read"
  /\ UNCHANGED <<args, self, treeVars, addressVars>>

GetHash ==
  /\ pc = "constructed"
  /\ got' = hashOf(self)
  /\ pc' = "read"
  /\ UNCHANGED <<args, self, treeVars, addressVars>>

NextModel == New \/ GetEncoded \/ GetDecoded \/ GetHash

SpecModel == InitModel /\ [][NextModel]_vars

\* The record the schema makes of args: its fields, cast.
SchemaRecord ==
  IF args.kind = "object"
  THEN [k \in FieldNames |-> <<"cast", args.props[k][2]>>]
  ELSE schemaDecode(args.bytes)

\* C10: whatever properties args carries, the constructed model's schema is
\* the schema it was given, and encoded, decoded and hash are those of the
\* record the schema makes of args.
C10_ReservedNamesKept ==
  pc \in {"constructed", "read"} =>
    /\ self["schema"] = SchemaSlot
    /\ self["args"].kind = "object"
    /\ self["args"].kind = "object" =>
         Restrict(self["args"].obj, FieldNames) = SchemaRecord
    /\ (pc = "read" /\ got.name = "encoded") =>
         (~got.threw /\ got.bytes = schemaEncode(SchemaRecord))
    /\ (pc = "read" /\ got.name = "hash") =>
         (~got.threw /\ got.bytes = hash(schemaEncode(SchemaRecord)))
    /\ (pc = "read" /\ got.name = "decoded") =>
         (got.slot.kind = "object"
          /\ Restrict(got.slot.obj, FieldNames) = SchemaRecord)

====
